---- MODULE Spec2Model ----
(***************************************************************************)
(* am-event-handler: the alert-to-execution dispatch pipeline.             *)
(*                                                                         *)
(* One HTTP request is followed from amWebHook through handleEvent,        *)
(* parseHandler, formatHandler, Tokenize and executeHandler to the         *)
(* response.  A Go string whose characters matter (the handler annotation, *)
(* a command template, the rendered command line) is a sequence of         *)
(* one-character strings; a text that is only ever concatenated (retText,  *)
(* an error message) is a sequence of fragments.                           *)
(*                                                                         *)
(* Spec follows one request.  SpecTokenize follows one call of Tokenize    *)
(* rune by rune.  SpecConcurrent follows several requests served at the    *)
(* same time.                                                              *)
(***************************************************************************)
EXTENDS Integers, Sequences, FiniteSets, TLC

VARIABLES
    config,     \* config.Handlers: handler name -> [Command, Status]
    debug,      \* the -debug flag
    pc,         \* position of the request's worker goroutine
    nAlerts,    \* len(e.Alerts) of the parsed event
    i,          \* index of the alert handleEvent is at (1-based)
    j,          \* index in [][]string{handler, {"all"}} (1 or 2)
    alert,      \* the loop variable alert (Status, Annotations, Timestamp, Json)
    handler,    \* the local handler of handleEvent: the primary tokens
    errors,     \* the local errors of handleEvent
    retText,    \* the local retText of handleEvent
    cmd,        \* exe and args handed to exec.Command
    proc,       \* the child process: "none", "running", "exited"
    exitCode,   \* exit status of the child once it has exited
    out,        \* the bytes.Buffer shared by cmd.Stdout and cmd.Stderr
    waiter,     \* the goroutine around cmd.Wait(): "none", "waiting", "sent"
    done,       \* the channel done (capacity 1)
    timer,      \* the channel of time.After(timeout): "off", "armed", "fired"
    status,     \* HTTP status written to the client, 0 while none
    body,       \* HTTP response body
    last,       \* history: the most recent parseHandler call
    calls,      \* history: the handler tokens of the parseHandler calls made
                \* for the current alert
    hist,       \* history of the request: whether an alert carried the handler
                \* annotation, whether a timer fired while its child was still
                \* running, whether a select took the timer case; the method,
                \* the length of the body sent, the bytes of it amWebHook got,
                \* whether a read failed, whether the body parsed
    lingering,  \* whether a goroutine of an executeHandler call that has
                \* returned is still in done <- cmd.Wait()
    workers,    \* concurrent requests: the worker goroutine of each
    frames,     \* concurrent requests: the locals errors and retText of each
                \* call of handleEvent
    input,      \* Tokenize followed rune by rune: its argument s
    pos,        \* the index of the next rune of s the loop reads (1-based)
    scan,       \* the locals result, token, state and quote
    prev,       \* history: scan as it was before the rune read last
    ret         \* what Tokenize returned, once it has

vars == <<config, debug, pc, nAlerts, i, j, alert, handler, errors, retText,
          cmd, proc, exitCode, out, waiter, done, timer, status, body,
          last, calls, hist, lingering, workers, frames,
          input, pos, scan, prev, ret>>

\* ---------------------------------------------------------------- bounds

\* Largest number of alerts in one event.
MaxAlerts == 2

\* Longest string handed to Tokenize when it is followed rune by rune.
MaxLen == 4

\* Number of requests the HTTP server handles at the same time.
NumRequests == 2

\* Bytes one alert takes in the body of a request: a body of n alerts is
\* n * AlertBytes long.
AlertBytes == 4096

\* ---------------------------------------------------------------- strings

\* unicode.IsSpace, on the characters the model uses.
IsSpace(c) == c \in {" ", "\t", "\n"}

S_default == <<"d", "e", "f", "a", "u", "l", "t">>
S_all == <<"a", "l", "l">>

\* Concatenation of a sequence of sequences.
RECURSIVE Flatten(_)
Flatten(ss) == IF ss = <<>> THEN <<>> ELSE Head(ss) \o Flatten(Tail(ss))

\* strings.Fields: the maximal runs of non-space characters of s, from
\* position k on, tok being the run read so far.
RECURSIVE FieldsFrom(_, _, _)
FieldsFrom(s, k, tok) ==
    IF k > Len(s)
    THEN IF tok = <<>> THEN <<>> ELSE <<tok>>
    ELSE IF IsSpace(s[k])
         THEN (IF tok = <<>> THEN <<>> ELSE <<tok>>) \o FieldsFrom(s, k + 1, <<>>)
         ELSE FieldsFrom(s, k + 1, Append(tok, s[k]))

Fields(s) == FieldsFrom(s, 1, <<>>)

\* ---------------------------------------------------------------- errors

\* A Go error value: nil, an EventError, or any other error with its text.
Nil == [code |-> "nil", object |-> <<>>, text |-> <<>>]
EventError(code, object) == [code |-> code, object |-> object, text |-> <<>>]
Errorf(text) == [code |-> "error", object |-> <<>>, text |-> text]

\* EventError.Error() and errorString.Error().
ErrorText(e) ==
    IF e.code = "EMISSING"
    THEN <<"Handler ">> \o e.object \o <<" is not defined or missing from configration">>
    ELSE e.text

\* Mutant of TimeoutError: the message is reworded.
TimeoutErrorReworded == Errorf(<<"Command execution ", "timeout", "; killed.">>)

\* The error executeHandler makes when the timer case of its select is taken.
TimeoutError == Errorf(<<"Command execution ", "timed out", " and was killed.">>)

\* A *bytes.Buffer as executeHandler returns it: nil, or a buffer and its bytes.
NilBuffer == [isNil |-> TRUE, bytes |-> <<>>]
Buffer(b) == [isNil |-> FALSE, bytes |-> b]

\* ---------------------------------------------------------------- Tokenize

\* Mutant of chunk: an empty token is a token too.
chunkAlways(st) ==
    [st EXCEPT !.result = Append(@, st.token), !.token = <<>>]

\* The closure chunk of Tokenize.
chunk(st) ==
    IF Len(st.token) > 0
    THEN [st EXCEPT !.result = Append(@, st.token), !.token = <<>>]
    ELSE st

\* Mutant of TokenizeStep: an escaped quote opens a quoted region.
TokenizeStepQuoteOpens(st, c) ==
    CASE st.state = 0 ->
            IF IsSpace(c) THEN chunk(st)
            ELSE IF c = "\\" THEN [st EXCEPT !.state = 1]
            ELSE IF c = "'" \/ c = "\"" THEN [st EXCEPT !.state = 2, !.quote = c]
            ELSE [st EXCEPT !.token = Append(@, c)]
      [] st.state = 1 ->
            IF st.quote = "" /\ (c = "'" \/ c = "\"")
            THEN [st EXCEPT !.state = 2, !.quote = c]
            ELSE LET tok == IF IsSpace(c) \/ c = "'" \/ c = "\""
                            THEN Append(st.token, c)
                            ELSE Append(Append(st.token, "\\"), c)
                 IN [st EXCEPT !.token = tok,
                               !.state = IF st.quote = "" THEN 0 ELSE 2]
      [] st.state = 2 ->
            IF c = "\\" THEN [st EXCEPT !.state = 1]
            ELSE IF c = st.quote
                 THEN [chunk(st) EXCEPT !.quote = "", !.state = 0]
                 ELSE [st EXCEPT !.token = Append(@, c)]

\* Mutant of TokenizeStep: a closing quote does not end the token.
TokenizeStepQuoteJoins(st, c) ==
    CASE st.state = 0 ->
            IF IsSpace(c) THEN chunk(st)
            ELSE IF c = "\\" THEN [st EXCEPT !.state = 1]
            ELSE IF c = "'" \/ c = "\"" THEN [st EXCEPT !.state = 2, !.quote = c]
            ELSE [st EXCEPT !.token = Append(@, c)]
      [] st.state = 1 ->
            LET tok == IF IsSpace(c) \/ c = "'" \/ c = "\""
                       THEN Append(st.token, c)
                       ELSE Append(Append(st.token, "\\"), c)
            IN [st EXCEPT !.token = tok,
                          !.state = IF st.quote = "" THEN 0 ELSE 2]
      [] st.state = 2 ->
            IF c = "\\" THEN [st EXCEPT !.state = 1]
            ELSE IF c = st.quote
                 THEN [st EXCEPT !.quote = "", !.state = 0]
                 ELSE [st EXCEPT !.token = Append(@, c)]

\* Mutant of TokenizeStep: the backslash before an ordinary rune is dropped.
TokenizeStepDropsBackslash(st, c) ==
    CASE st.state = 0 ->
            IF IsSpace(c) THEN chunk(st)
            ELSE IF c = "\\" THEN [st EXCEPT !.state = 1]
            ELSE IF c = "'" \/ c = "\"" THEN [st EXCEPT !.state = 2, !.quote = c]
            ELSE [st EXCEPT !.token = Append(@, c)]
      [] st.state = 1 ->
            [st EXCEPT !.token = Append(@, c),
                       !.state = IF st.quote = "" THEN 0 ELSE 2]
      [] st.state = 2 ->
            IF c = "\\" THEN [st EXCEPT !.state = 1]
            ELSE IF c = st.quote
                 THEN [chunk(st) EXCEPT !.quote = "", !.state = 0]
                 ELSE [st EXCEPT !.token = Append(@, c)]

\* Mutant of TokenizeStep: a closing quote ends a token even when the quoted
\* region is empty.
TokenizeStepEmptyQuoted(st, c) ==
    CASE st.state = 0 ->
            IF IsSpace(c) THEN chunk(st)
            ELSE IF c = "\\" THEN [st EXCEPT !.state = 1]
            ELSE IF c = "'" \/ c = "\"" THEN [st EXCEPT !.state = 2, !.quote = c]
            ELSE [st EXCEPT !.token = Append(@, c)]
      [] st.state = 1 ->
            LET tok == IF IsSpace(c) \/ c = "'" \/ c = "\""
                       THEN Append(st.token, c)
                       ELSE Append(Append(st.token, "\\"), c)
            IN [st EXCEPT !.token = tok,
                          !.state = IF st.quote = "" THEN 0 ELSE 2]
      [] st.state = 2 ->
            IF c = "\\" THEN [st EXCEPT !.state = 1]
            ELSE IF c = st.quote
                 THEN [st EXCEPT !.result = Append(@, st.token), !.token = <<>>,
                                 !.quote = "", !.state = 0]
                 ELSE [st EXCEPT !.token = Append(@, c)]

\* One iteration of Tokenize's loop over the runes of s; quote "" is '\x00'.
TokenizeStep(st, c) ==
    CASE st.state = 0 ->
            IF IsSpace(c) THEN chunk(st)
            ELSE IF c = "\\" THEN [st EXCEPT !.state = 1]
            ELSE IF c = "'" \/ c = "\"" THEN [st EXCEPT !.state = 2, !.quote = c]
            ELSE [st EXCEPT !.token = Append(@, c)]
      [] st.state = 1 ->
            LET tok == IF IsSpace(c) \/ c = "'" \/ c = "\""
                       THEN Append(st.token, c)
                       ELSE Append(Append(st.token, "\\"), c)
            IN [st EXCEPT !.token = tok,
                          !.state = IF st.quote = "" THEN 0 ELSE 2]
      [] st.state = 2 ->
            IF c = "\\" THEN [st EXCEPT !.state = 1]
            ELSE IF c = st.quote
                 THEN [chunk(st) EXCEPT !.quote = "", !.state = 0]
                 ELSE [st EXCEPT !.token = Append(@, c)]

RECURSIVE TokenizeFrom(_, _, _)
TokenizeFrom(s, k, st) ==
    IF k > Len(s) THEN st ELSE TokenizeFrom(s, k + 1, TokenizeStep(st, s[k]))

\* The locals of Tokenize when its loop starts.
ScanStart == [result |-> <<>>, token |-> <<>>, state |-> 0, quote |-> ""]

\* Mutant of EndOfString: a backslash at the end of the string is dropped.
EndOfStringDropsBackslash(st) ==
    IF st.state = 2
    THEN [fields |-> <<>>, err |-> Errorf(<<"Missing closing quote">>)]
    ELSE [fields |-> chunk(st).result, err |-> Nil]

\* Mutant of EndOfString: the tokens completed before the quote are returned
\* beside the error.
EndOfStringKeepsTokens(st) ==
    IF st.state = 2
    THEN [fields |-> st.result, err |-> Errorf(<<"Missing closing quote">>)]
    ELSE LET end == IF st.state = 1
                    THEN [st EXCEPT !.token = Append(@, "\\")]
                    ELSE st
         IN [fields |-> chunk(end).result, err |-> Nil]

\* Tokenize after its loop ("End of String"): the fields and the error.
EndOfString(st) ==
    IF st.state = 2
    THEN [fields |-> <<>>, err |-> Errorf(<<"Missing closing quote">>)]
    ELSE LET end == IF st.state = 1
                    THEN [st EXCEPT !.token = Append(@, "\\")]
                    ELSE st
         IN [fields |-> chunk(end).result, err |-> Nil]

\* Tokenize(s): the fields and the error.
Tokenize(s) == EndOfString(TokenizeFrom(s, 1, ScanStart))

\* ---------------------------------------------------------------- templates

\* A command template is a sequence of literal characters and actions.  The
\* actions the model uses: {{index .Argv 0}}, and "{{" for an action that is
\* never closed, which template.Parse rejects.
ActArgv0 == "{{index .Argv 0}}"
ActUnclosed == "{{"

\* template.New("command").Funcs(funcs).Parse(command): the error.
templateParse(command) ==
    IF \E k \in 1..Len(command) : command[k] = ActUnclosed
    THEN Errorf(<<"template: command:1: unclosed action">>)
    ELSE Nil

\* tmpl.Execute(buf, a): the error, and what was written to buf.
templateExecute(command, a) ==
    IF (\E k \in 1..Len(command) : command[k] = ActArgv0) /\ Len(a.Argv) = 0
    THEN [err |-> Errorf(<<"template: command:1:3: executing \"command\": ",
                           "error calling index: index out of range: 0">>),
          buf |-> <<>>]
    ELSE [err |-> Nil,
          buf |-> Flatten([k \in 1..Len(command) |->
                              IF command[k] = ActArgv0 THEN a.Argv[1]
                              ELSE <<command[k]>>])]

\* formatHandler(handler, command, a).  panic is the run-time panic of
\* fields[0] when Tokenize returns no field (index out of range).  alert is
\* formatHandler's own copy of a, as the template is executed on it.
formatHandler(h, command, a) ==
    LET a2 == [a EXCEPT !.Argv = Tail(h)]
        perr == templateParse(command)
        ex == templateExecute(command, a2)
        tk == Tokenize(ex.buf)
        fail(e) == [panic |-> FALSE, script |-> <<>>, args |-> <<>>, err |-> e,
                    Argv |-> a2.Argv, alert |-> a2]
    IN IF perr # Nil THEN fail(perr)
       ELSE IF ex.err # Nil THEN fail(ex.err)
       ELSE IF tk.err # Nil THEN fail(tk.err)
       ELSE IF Len(tk.fields) = 0
            THEN [panic |-> TRUE, script |-> <<>>, args |-> <<>>, err |-> Nil,
                  Argv |-> a2.Argv, alert |-> a2]
            ELSE [panic |-> FALSE, script |-> tk.fields[1],
                  args |-> Tail(tk.fields), err |-> Nil, Argv |-> a2.Argv,
                  alert |-> a2]

\* ---------------------------------------------------------------- parseHandler

\* Mutant of LookupKeys: a key that starts with name is hit.
LookupKeysPrefix(cfg, name) ==
    {key \in DOMAIN cfg :
        Len(key) >= Len(name) /\ SubSeq(key, 1, Len(name)) = name}

\* The keys of config.Handlers that the map index config.Handlers[name] hits.
LookupKeys(cfg, name) == {key \in DOMAIN cfg : key = name}

\* Mutant of FilterOf: a non-specified status selects any alert.
FilterOfEmptyAny(command) == IF command.Status = "" THEN "*" ELSE command.Status

\* command.Status after the default for a non-specified status is set.
FilterOf(command) == IF command.Status = "" THEN "firing" ELSE command.Status

\* Whether the status filter of command lets the alert through.
\* Mutant of StatusMatches: the status filter lets every alert through.
StatusMatchesAlways(command, a) == TRUE

StatusMatches(command, a) ==
    FilterOf(command) = "*" \/ FilterOf(command) = a.Status

\* parseHandler(handler, alert) up to its call of executeHandler.  kind is
\* "return" when parseHandler returns (nil, err) itself, "panic" when
\* formatHandler panics, "exec" when executeHandler(script, args) is called;
\* stage is the last stage reached.
parseHandler(cfg, h, a) ==
    LET res(kind, stage, err) ==
            [kind |-> kind, stage |-> stage, err |-> err, key |-> <<>>,
             script |-> <<>>, args |-> <<>>, Argv |-> <<>>, alert |-> a]
    IN IF Len(h) = 0
       THEN res("return", "empty",
                Errorf(<<"Empty handler annotation found in alert.">>))
       ELSE IF LookupKeys(cfg, h[1]) = {}
       THEN res("return", "lookup", EventError("EMISSING", h[1]))
       ELSE LET hit == CHOOSE key \in LookupKeys(cfg, h[1]) : TRUE
                command == cfg[hit]
                f == formatHandler(h, command.Command, a)
                found(kind, stage, err) ==
                    [res(kind, stage, err) EXCEPT !.key = hit]
            IN IF ~StatusMatches(command, a)
               THEN found("return", "filter", Nil)
               ELSE IF f.panic
               THEN [found("panic", "format", Nil)
                     EXCEPT !.Argv = f.Argv, !.alert = f.alert]
               ELSE IF f.err # Nil
               THEN [found("return", "format",
                           Errorf(<<"Could not parse handler arguments: ">>
                                  \o ErrorText(f.err)))
                     EXCEPT !.Argv = f.Argv, !.alert = f.alert]
               ELSE IF f.script = <<>>
               THEN [found("return", "script",
                           Errorf(<<"Script is empty, not running.">>))
                     EXCEPT !.Argv = f.Argv, !.alert = f.alert]
               ELSE [found("exec", "exec", Nil)
                     EXCEPT !.script = f.script, !.args = f.args,
                            !.Argv = f.Argv, !.alert = f.alert]

\* ---------------------------------------------------------------- handleEvent

\* Mutant of Suppressed: the test for "all" is forgotten.
SuppressedDefaultOnly(h, err) ==
    err.code = "EMISSING" /\ h[1] = S_default

\* Mutant of Suppressed: the test for the kind of error is forgotten.
SuppressedAnyError(h, err) ==
    Len(h) > 0 /\ (h[1] = S_default \/ h[1] = S_all)

\* Whether handleEvent ignores err for the handler tokens h: a missing
\* handler error for one of the special handlers.
Suppressed(h, err) ==
    err.code = "EMISSING" /\ (h[1] = S_default \/ h[1] = S_all)

\* Mutant of Account: the output is written before the error line.
AccountOutputFirst(h, output, err, errs, text) ==
    LET counted == err # Nil /\ ~Suppressed(h, err)
        t1 == IF (err = Nil \/ counted) /\ ~output.isNil /\ Len(output.bytes) > 0
              THEN text \o output.bytes ELSE text
        t2 == IF counted THEN t1 \o ErrorText(err) \o <<"\n">> ELSE t1
    IN [errors |-> IF counted THEN errs + 1 ELSE errs, retText |-> t2]

\* The body of handleEvent's inner loop after parseHandler has returned
\* (output, err) for the handler tokens h: the new errors and retText.
Account(h, output, err, errs, text) ==
    LET counted == err # Nil /\ ~Suppressed(h, err)
        t1 == IF counted THEN text \o ErrorText(err) \o <<"\n">> ELSE text
        t2 == IF (err = Nil \/ counted) /\ ~output.isNil /\ Len(output.bytes) > 0
              THEN t1 \o output.bytes ELSE t1
    IN [errors |-> IF counted THEN errs + 1 ELSE errs, retText |-> t2]

\* Mutant of MarshalJSON: the snapshot is taken before Timestamp is stamped.
MarshalJSONUnstamped(a) ==
    [status |-> a.Status, annotations |-> a.Annotations, timestamp |-> ""]

\* json.Marshal(alert): the fields without the tag json:"-".
MarshalJSON(a) ==
    [status |-> a.Status, annotations |-> a.Annotations,
     timestamp |-> a.Timestamp]

\* Mutant of PrimaryHandler: no fallback to "default".
PrimaryHandlerNoDefault(a) ==
    IF "handler" \in DOMAIN a.Annotations
    THEN Fields(a.Annotations["handler"])
    ELSE <<>>

\* The handler tokens handleEvent picks for the alert a.
PrimaryHandler(a) ==
    IF "handler" \in DOMAIN a.Annotations
    THEN Fields(a.Annotations["handler"])
    ELSE <<S_default>>

\* Mutant of Invocation: the "all" invocation carries the arguments of the
\* primary one.
InvocationCarries(hd, k) ==
    IF k = 1 THEN hd ELSE <<S_all>> \o SubSeq(hd, 2, Len(hd))

\* The j-th element of [][]string{handler, []string{"all"}}.
Invocation(hd, k) == IF k = 1 THEN hd ELSE <<S_all>>

\* ---------------------------------------------------------------- inputs

NoAnnotations == [key \in {} |-> <<>>]
HandlerAnnotation(v) == [key \in {"handler"} |-> v]

\* Values of the handler annotation.
AnnotationValues ==
    { <<"h">>,                       \* a handler name alone
      <<"h", " ", "\t", "a">>,       \* a handler name and one argument
      <<" ">>,                       \* white space only: no token
      <<"n">>,                       \* a name no configuration defines
      S_default }                    \* the meta-handler named explicitly

AlertInputs ==
    [Status : {"firing", "resolved"},
     Annotations : {NoAnnotations} \cup {HandlerAnnotation(v) : v \in AnnotationValues}]

\* Values of time.Now().UTC().Format(time.RFC3339).
Timestamps == {"T1"}

Handler(command, st) == [Command |-> command, Status |-> st]

Cmd_x == <<"x">>
Cmd_xArgv == <<"x", " ", ActArgv0>>
Cmd_empty == <<" ">>
Cmd_quote == <<"x", " ", "'", "a">>
Cmd_unclosed == <<"x", " ", ActUnclosed>>

N_h == <<"h">>
N_H == <<"H">>
N_hh == <<"h", "h">>

\* The configurations loadConfiguration may have returned.
Configurations ==
    { [key \in {} |-> Handler(<<>>, "")],
      (N_H :> Handler(Cmd_x, "*")) @@ (N_hh :> Handler(Cmd_x, "*")),
      (N_h :> Handler(Cmd_xArgv, "")) @@ (S_all :> Handler(Cmd_xArgv, "*")),
      (N_h :> Handler(Cmd_quote, "resolved")) @@ (S_all :> Handler(Cmd_x, "firing")),
      (N_h :> Handler(Cmd_x, "*")) @@ (S_all :> Handler(Cmd_x, "firing")),
      (N_h :> Handler(Cmd_empty, "*")) @@ (S_all :> Handler(Cmd_x, "*")),
      (N_h :> Handler(Cmd_quote, "firing")) @@ (S_default :> Handler(Cmd_unclosed, ""))
          @@ (S_all :> Handler(Cmd_quote, "*")),
      (S_default :> Handler(Cmd_x, "*")),
      (S_default :> Handler(Cmd_xArgv, "*")) @@ (S_all :> Handler(Cmd_empty, "resolved")) }

\* What a child process writes to its standard output and standard error.
Outputs == { <<"o">> }

\* Exit statuses of a child process.
ExitCodes == {0, 1}

\* Mutant of ExitError: the exit status is lost.
ExitErrorLost(code) == Nil

\* cmd.Wait()'s result for a child that exited with status code.
ExitError(code) ==
    IF code = 0 THEN Nil ELSE Errorf(<<"exit status 1">>)

\* cmd.Start()'s error when the executable cannot be started.
StartError == Errorf(<<"exec: \"x\": executable file not found in $PATH">>)

\* ---------------------------------------------------------------- state

NoAlert == [Status |-> "", Annotations |-> NoAnnotations, Timestamp |-> "",
            Argv |-> <<>>,
            Json |-> [status |-> "", annotations |-> NoAnnotations, timestamp |-> ""]]

\* early: the child exited while the timer had not fired; captured: what out
\* held when executeHandler returned; kill: cmd.Process.Kill() was called.
NoCall == [n |-> 0, j |-> 0, h |-> <<>>, key |-> <<>>, stage |-> "none",
           outcome |-> "none", err |-> Nil, output |-> NilBuffer, Argv |-> <<>>,
           early |-> FALSE, captured |-> <<>>, kill |-> FALSE]

\* No call of Tokenize is followed.
NoReturn == [returned |-> FALSE, fields |-> <<>>, err |-> Nil]
ScanIdle ==
    /\ input = <<>>
    /\ pos = 0
    /\ scan = ScanStart
    /\ prev = ScanStart
    /\ ret = NoReturn

\* No concurrent requests are followed.
Requests == 1..NumRequests
NoFrame == [errors |-> 0, retText |-> <<>>]
NoWorker == [pc |-> "recv", alert |-> NoAlert, handler |-> <<>>, j |-> 0,
             status |-> 0, body |-> <<>>, log |-> <<>>, mixed |-> FALSE]
PoolIdle ==
    /\ workers = [r \in Requests |-> NoWorker]
    /\ frames = [f \in Requests |-> NoFrame]

\* The server waits for a request.
RequestIdle ==
    /\ pc = "recv"
    /\ nAlerts = 0
    /\ i = 0
    /\ j = 0
    /\ alert = NoAlert
    /\ handler = <<>>
    /\ errors = 0
    /\ retText = <<>>
    /\ cmd = [exe |-> <<>>, args |-> <<>>]
    /\ proc = "none"
    /\ exitCode = 0
    /\ out = <<>>
    /\ waiter = "none"
    /\ done = <<>>
    /\ timer = "off"
    /\ status = 0
    /\ body = <<>>
    /\ last = NoCall
    /\ calls = <<>>
    /\ hist = [annotated |-> FALSE, elapsed |-> FALSE, timedOut |-> FALSE,
               method |-> "", length |-> 0, got |-> 0, readErr |-> FALSE,
               parsed |-> FALSE]
    /\ lingering = FALSE

Init ==
    /\ config \in Configurations
    /\ debug \in BOOLEAN
    /\ ScanIdle
    /\ PoolIdle
    /\ RequestIdle

request == <<nAlerts, i, j, alert, handler, errors, retText>>
scanner == <<input, pos, scan, prev, ret>>
pool == <<workers, frames>>
child == <<cmd, proc, exitCode, out, waiter, done, timer>>

\* Mutant of Forget: the child stays with the worker.
ForgetNothing == UNCHANGED <<cmd, proc, exitCode, out, waiter, done, timer>>

\* executeHandler returns: its locals cmd, out and done go out of scope, and
\* nothing the worker can reach refers to the child any more.
Forget ==
    /\ cmd' = [exe |-> <<>>, args |-> <<>>]
    /\ proc' = "none"
    /\ exitCode' = 0
    /\ out' = <<>>
    /\ waiter' = "none"
    /\ done' = <<>>
    /\ timer' = "off"
response == <<status, body>>

\* http.Error(w, text, code).
httpError(text, code) ==
    /\ status' = code
    /\ body' = text \o <<"\n">>
    /\ pc' = "done"

\* The size of the buffer amWebHook reads the body into.
JsonBody == 4096

Min(a, b) == IF a < b THEN a ELSE b

\* Mutant of ReadBody: one Read into the buffer, as far as it goes.
ReadBodyOnce(length) == Min(length, JsonBody)

\* The loop of amWebHook around r.Body.Read(buf): the bytes appended to body
\* when no read fails, each Read filling at most the buffer.
RECURSIVE ReadFrom(_, _)
ReadFrom(length, got) ==
    IF got >= length THEN got
    ELSE ReadFrom(length, got + Min(JsonBody, length - got))

ReadBody(length) == ReadFrom(length, 0)

\* Mutant of MethodAllowed: the filter for POST is forgotten.
MethodAllowedAny(method) == TRUE

\* The filter of amWebHook on r.Method.
MethodAllowed(method) == method = "POST"

\* amWebHook, from the request to its call of handleEvent: the method
\* filter, the read of the body, unmarshalBody.  sound is whether the body
\* sent is the JSON of an event; a body cut short does not parse.
amWebHook ==
    /\ UNCHANGED lingering
    /\ pc = "recv"
    /\ \E method \in {"POST", "GET"}, readOK \in BOOLEAN, sound \in BOOLEAN,
          n \in 0..MaxAlerts :
          LET length == n * AlertBytes
              got == ReadBody(length)
              parseOK == sound /\ got = length
              seen(g, e, p) == [hist EXCEPT !.method = method, !.length = length,
                                           !.got = g, !.readErr = e, !.parsed = p]
          IN IF ~MethodAllowed(method)
             THEN /\ httpError(<<"Bad request method.">>, 400)
                  /\ hist' = seen(0, FALSE, FALSE)
                  /\ UNCHANGED request
             ELSE IF ~readOK
             THEN /\ httpError(<<"unexpected EOF">>, 500)
                  /\ hist' = seen(0, TRUE, FALSE)
                  /\ UNCHANGED request
             ELSE IF ~parseOK
             THEN /\ httpError(<<"Error parsing JSON: ",
                                 "unexpected end of JSON input">>, 400)
                  /\ hist' = seen(got, FALSE, FALSE)
                  /\ UNCHANGED request
             ELSE /\ pc' = "loop"
                  /\ nAlerts' = n
                  /\ i' = 1
                  /\ hist' = seen(got, FALSE, TRUE)
                  /\ UNCHANGED <<j, alert, handler, errors, retText, response>>
    /\ UNCHANGED <<scanner, pool, config, debug, child, last, calls>>

\* handleEvent, the head of one iteration of the loop over e.Alerts: the
\* timestamp, the JSON snapshot, the handler tokens.
handleEvent ==
    /\ UNCHANGED lingering
    /\ pc = "loop"
    /\ i <= nAlerts
    /\ \E a \in AlertInputs, now \in Timestamps :
          LET stamped == [Status |-> a.Status, Annotations |-> a.Annotations,
                          Timestamp |-> now, Argv |-> <<>>, Json |-> NoAlert.Json]
          IN /\ alert' = [stamped EXCEPT !.Json = MarshalJSON(stamped)]
             /\ handler' = PrimaryHandler(a)
             /\ hist' = [hist EXCEPT !.annotated =
                                        @ \/ "handler" \in DOMAIN a.Annotations]
    /\ j' = 1
    /\ calls' = <<>>
    /\ pc' = "invoke"
    /\ UNCHANGED <<scanner, pool, config, debug, nAlerts, i, errors, retText, child, response, last>>

\* parseHandler has returned (output, err) for the invocation j: the rest of
\* the inner loop's body, and the step to the next invocation or alert.
Return(h, output, err) ==
    /\ errors' = Account(h, output, err, errors, retText).errors
    /\ retText' = Account(h, output, err, errors, retText).retText
    /\ IF j = 1
       THEN j' = 2 /\ pc' = "invoke" /\ i' = i
       ELSE j' = j /\ pc' = "loop" /\ i' = i + 1
    /\ UNCHANGED <<scanner, pool, config, debug, nAlerts, alert, handler, response>>

\* The record of the parseHandler call being made.
Call(h, r, outcome, err, output) ==
    [n |-> last.n + 1, j |-> j, h |-> h, key |-> r.key, stage |-> r.stage,
     outcome |-> outcome, err |-> err, output |-> output, Argv |-> r.Argv,
     early |-> FALSE, captured |-> <<>>, kill |-> FALSE]

\* handleEvent's call parseHandler(h, alert), up to the return of
\* parseHandler or, when executeHandler starts a child, up to its select.
\* A panic of formatHandler ends the request: net/http recovers it and closes
\* the connection without a response.
Invoke ==
    /\ UNCHANGED lingering
    /\ pc = "invoke"
    /\ LET h == Invocation(handler, j)
           r == parseHandler(config, h, alert)
       IN /\ calls' = Append(calls, h)
          /\ hist' = hist
          /\ CASE r.kind = "return" ->
                    /\ Return(h, NilBuffer, r.err)
                    /\ last' = Call(h, r, "return", r.err, NilBuffer)
                    /\ UNCHANGED child
               [] r.kind = "panic" ->
                    /\ pc' = "panic"
                    /\ last' = Call(h, r, "panic", Nil, NilBuffer)
                    /\ UNCHANGED <<scanner, pool, config, debug, request, child, response>>
               [] r.kind = "exec" /\ debug ->
                    /\ Return(h, NilBuffer, Nil)
                    /\ last' = Call(h, r, "debug", Nil, NilBuffer)
                    /\ UNCHANGED child
               [] r.kind = "exec" /\ ~debug ->
                    \E startOK \in BOOLEAN :
                       IF ~startOK
                       THEN /\ Return(h, NilBuffer, StartError)
                            /\ last' = Call(h, r, "startfail", StartError, NilBuffer)
                            /\ UNCHANGED child
                       ELSE /\ cmd' = [exe |-> r.script, args |-> r.args]
                            /\ proc' = "running"
                            /\ exitCode' = 0
                            /\ out' = <<>>
                            /\ waiter' = "waiting"
                            /\ done' = <<>>
                            /\ timer' = "armed"
                            /\ pc' = "select"
                            /\ last' = Call(h, r, "running", Nil, NilBuffer)
                            /\ UNCHANGED <<scanner, pool, config, debug, request, response>>

\* The child writes to the pipe behind cmd.Stdout and cmd.Stderr.
ChildWrite ==
    /\ UNCHANGED lingering
    /\ proc = "running"
    /\ out = <<>>
    /\ \E o \in Outputs : out' = o
    /\ UNCHANGED <<scanner, pool, config, debug, pc, request, cmd, proc, exitCode, waiter, done,
                   timer, response, last, calls, hist>>

\* The child exits on its own.
ChildExit ==
    /\ UNCHANGED lingering
    /\ proc = "running"
    /\ \E code \in ExitCodes : exitCode' = code
    /\ proc' = "exited"
    /\ last' = [last EXCEPT !.early = (timer = "armed")]
    /\ UNCHANGED <<scanner, pool, config, debug, pc, request, cmd, out, waiter, done, timer,
                   response, calls, hist>>

\* The goroutine of executeHandler: done <- cmd.Wait(), while the worker is
\* in its select.  WaitLate is the same send after a return on timeout.
Wait ==
    /\ UNCHANGED lingering
    /\ pc = "select"
    /\ waiter = "waiting"
    /\ proc = "exited"
    /\ done' = <<ExitError(exitCode)>>
    /\ waiter' = "sent"
    /\ UNCHANGED <<scanner, pool, config, debug, pc, request, cmd, proc, exitCode, out, timer,
                   response, last, calls, hist>>

\* The timer of time.After(timeout) sends on its channel.
TimeAfter ==
    /\ UNCHANGED lingering
    /\ pc = "select"
    /\ timer = "armed"
    /\ timer' = "fired"
    /\ hist' = [hist EXCEPT !.elapsed = @ \/ proc = "running"]
    /\ UNCHANGED <<scanner, pool, config, debug, pc, request, cmd, proc, exitCode, out, waiter,
                   done, response, last, calls>>

\* Mutant of doneCase: the output is dropped beside the exit result.
doneCaseNilOutput(e, o) == [err |-> e, out |-> NilBuffer, kill |-> FALSE]

\* The select of executeHandler, case err = <-done: err, out and whether
\* the child was sent a kill.
doneCase(e, o) == [err |-> e, out |-> Buffer(o), kill |-> FALSE]

\* Mutant of timerCase: out is left as it is.
timerCaseKeepsOutput(o) == [err |-> TimeoutError, out |-> Buffer(o), kill |-> TRUE]

\* The select of executeHandler, case <-time.After(timeout): the kill, the
\* timeout error, out = nil.
timerCase(o) == [err |-> TimeoutError, out |-> NilBuffer, kill |-> TRUE]

\* executeHandler's select, case err = <-done, and its return (out, err).
SelectDone ==
    /\ UNCHANGED lingering
    /\ pc = "select"
    /\ done # <<>>
    /\ Return(Invocation(handler, j), doneCase(Head(done), out).out,
              doneCase(Head(done), out).err)
    /\ last' = [last EXCEPT !.outcome = "exit",
                            !.err = doneCase(Head(done), out).err,
                            !.output = doneCase(Head(done), out).out,
                            !.kill = doneCase(Head(done), out).kill,
                            !.captured = out]
    /\ Forget
    /\ UNCHANGED <<calls, hist>>

\* executeHandler's select, case <-time.After(timeout): the kill, the
\* timeout error, out = nil, and its return (out, err).
SelectTimeout ==
    /\ pc = "select"
    /\ timer = "fired"
    /\ Return(Invocation(handler, j), timerCase(out).out, timerCase(out).err)
    /\ last' = [last EXCEPT !.outcome = "timeout",
                            !.err = timerCase(out).err,
                            !.output = timerCase(out).out,
                            !.kill = timerCase(out).kill,
                            !.captured = out]
    /\ Forget
    /\ hist' = [hist EXCEPT !.timedOut = TRUE]
    /\ lingering' = (lingering \/ waiter = "waiting")
    /\ UNCHANGED calls

\* The goroutine of an executeHandler call that has returned on its timeout:
\* cmd.Wait() returns for the killed child, the send on done (capacity 1,
\* read by nobody) does not block, the goroutine ends.  The step is the end
\* of the last such goroutine.
WaitLate ==
    /\ lingering
    /\ lingering' = FALSE
    /\ UNCHANGED <<scanner, pool, config, debug, pc, request, child, response, last,
                   calls, hist>>

\* Mutant of Failed: one error is let through.
FailedOffByOne(errs) == errs > 1

\* Whether handleEvent returns an error beside retText.
Failed(errs) == errs > 0

\* handleEvent's return after the loop, and amWebHook's response.
Respond ==
    /\ UNCHANGED lingering
    /\ pc = "loop"
    /\ i > nAlerts
    /\ status' = IF Failed(errors) THEN 400 ELSE 200
    /\ body' = retText
    /\ pc' = "done"
    /\ UNCHANGED <<scanner, pool, config, debug, request, child, last, calls, hist>>

Next ==
    \/ amWebHook
    \/ handleEvent
    \/ Invoke
    \/ ChildWrite
    \/ ChildExit
    \/ Wait
    \/ TimeAfter
    \/ SelectDone
    \/ SelectTimeout
    \/ WaitLate
    \/ Respond

Spec == Init /\ [][Next]_vars

\* The configurations followed under fairness: the handler h renders to
\* white space, the handler all to an executable.
FairConfigurations ==
    { (N_h :> Handler(Cmd_empty, "*")) @@ (S_all :> Handler(Cmd_x, "*")) }

InitFair ==
    /\ Init
    /\ config \in FairConfigurations
    /\ ~debug

\* The request under the scheduling the runtime gives: the handler
\* goroutine runs while it can, the timer of time.After fires once armed,
\* and a select with a ready case is taken.  Nothing makes a child write or
\* exit.
SpecFair ==
    /\ InitFair
    /\ [][Next]_vars
    /\ WF_vars(amWebHook)
    /\ WF_vars(handleEvent)
    /\ WF_vars(Invoke)
    /\ WF_vars(TimeAfter)
    /\ WF_vars(SelectDone)
    /\ WF_vars(SelectTimeout)
    /\ WF_vars(Respond)

\* ------------------------------------------------- Tokenize, rune by rune

\* The runes of the strings handed to Tokenize: a letter, two kinds of white
\* space, the backslash and the two quotes.
Alphabet == {"a", " ", "\n", "\\", "'", "\""}
Strings == UNION {[1..n -> Alphabet] : n \in 0..MaxLen}

\* A call Tokenize(s) is made; no request is under way.
InitTokenize ==
    /\ input \in Strings
    /\ pos = 1
    /\ scan = ScanStart
    /\ prev = ScanStart
    /\ ret = NoReturn
    /\ config \in {c \in Configurations : DOMAIN c = {}}
    /\ debug = FALSE
    /\ PoolIdle
    /\ RequestIdle

dispatch == <<config, debug, pc, request, child, response, last, calls, hist,
              lingering>>

\* One iteration of the loop over the runes of s.
TokenizeRune ==
    /\ ~ret.returned
    /\ pos <= Len(input)
    /\ prev' = scan
    /\ scan' = TokenizeStep(scan, input[pos])
    /\ pos' = pos + 1
    /\ UNCHANGED <<dispatch, pool, input, ret>>

\* The end of the string is reached: Tokenize returns.
TokenizeEnd ==
    /\ ~ret.returned
    /\ pos = Len(input) + 1
    /\ ret' = [returned |-> TRUE, fields |-> EndOfString(scan).fields,
               err |-> EndOfString(scan).err]
    /\ UNCHANGED <<dispatch, pool, input, pos, scan, prev>>

NextTokenize ==
    \/ TokenizeRune
    \/ TokenizeEnd

SpecTokenize == InitTokenize /\ [][NextTokenize]_vars

\* ------------------------------------------------- concurrent requests

\* net/http runs amWebHook in a goroutine of its own for each request.  Here
\* each request carries an event of one alert, and a call of executeHandler
\* is one step: its child, its buffer and its channel are locals of the call.

\* Mutant of Frame: errors and retText are variables of the package.
FrameShared(r) == 1

\* Where the call of handleEvent for request r keeps its locals errors and
\* retText: in a frame of its own.
Frame(r) == r

\* What executeHandler(script, args) may return: out, err, and whether the
\* child was sent a kill.
executeHandler(dbg) ==
    IF dbg
    THEN { [err |-> Nil, out |-> NilBuffer, kill |-> FALSE] }
    ELSE { [err |-> StartError, out |-> NilBuffer, kill |-> FALSE] }
         \cup { doneCase(ExitError(code), o) : code \in ExitCodes, o \in Outputs }
         \cup { timerCase(o) : o \in Outputs }

ConcurrentConfigurations ==
    { c \in Configurations :
         /\ DOMAIN c = {N_h, S_all}
         /\ c[S_all].Command = Cmd_x
         /\ c[S_all].Status \in {"*", "firing"}
         /\ c[N_h].Status = "*" }
ConcurrentAlerts ==
    { a \in AlertInputs :
         /\ a.Status = "firing"
         /\ a.Annotations \in {HandlerAnnotation(N_h),
                                HandlerAnnotation(<<"n">>)} }

InitConcurrent ==
    /\ config \in ConcurrentConfigurations
    /\ debug \in BOOLEAN
    /\ PoolIdle
    /\ ScanIdle
    /\ RequestIdle

\* What a step of a concurrent request leaves alone.
apart == <<scanner, config, debug, pc, request, child, response, last, calls,
           hist, lingering>>

\* amWebHook for request r, up to the first statements of handleEvent:
\* errors := 0 and retText := new(bytes.Buffer).
amWebHookOf(r) ==
    /\ workers[r].pc = "recv"
    /\ workers' = [workers EXCEPT ![r].pc = "loop"]
    /\ frames' = [frames EXCEPT ![Frame(r)] = NoFrame]
    /\ UNCHANGED apart

\* handleEvent for request r, the head of the loop for its alert.
handleEventOf(r) ==
    /\ workers[r].pc = "loop"
    /\ workers[r].j = 0
    /\ \E a \in ConcurrentAlerts, now \in Timestamps :
          LET stamped == [Status |-> a.Status, Annotations |-> a.Annotations,
                          Timestamp |-> now, Argv |-> <<>>, Json |-> NoAlert.Json]
          IN workers' = [workers EXCEPT
                            ![r].alert = [stamped EXCEPT !.Json = MarshalJSON(stamped)],
                            ![r].handler = PrimaryHandler(a),
                            ![r].j = 1,
                            ![r].pc = "invoke"]
    /\ UNCHANGED <<frames, apart>>

\* The workers that are between their two invocations while another
\* request makes one.
Mixed(r) ==
    [q \in Requests |->
        IF q # r /\ workers[q].pc = "invoke" /\ workers[q].j = 2
        THEN [workers[q] EXCEPT !.mixed = TRUE]
        ELSE workers[q]]

\* One pass of the inner loop of handleEvent for request r: the call of
\* parseHandler, and what the loop does with its result.
parseHandlerOf(r) ==
    /\ workers[r].pc = "invoke"
    /\ LET w == workers[r]
           h == Invocation(w.handler, w.j)
           p == parseHandler(config, h, w.alert)
           f == frames[Frame(r)]
       IN \E x \in executeHandler(debug) :
             LET res == IF p.kind = "exec" THEN x
                        ELSE [err |-> p.err, out |-> NilBuffer, kill |-> FALSE]
                 acc == Account(h, res.out, res.err, f.errors, f.retText)
             IN IF p.kind = "panic"
                THEN /\ workers' = [Mixed(r) EXCEPT ![r].pc = "panic"]
                     /\ UNCHANGED frames
                ELSE /\ frames' = [frames EXCEPT ![Frame(r)] = acc]
                     /\ workers' = [Mixed(r) EXCEPT
                           ![r].log = Append(@, [h |-> h, output |-> res.out,
                                                 err |-> res.err]),
                           ![r].j = w.j + 1,
                           ![r].pc = IF w.j = 1 THEN "invoke" ELSE "loop"]
    /\ UNCHANGED apart

\* handleEvent's return for request r, and amWebHook's response.
RespondOf(r) ==
    /\ workers[r].pc = "loop"
    /\ workers[r].j > 0
    /\ workers' = [workers EXCEPT
                      ![r].status = IF Failed(frames[Frame(r)].errors)
                                    THEN 400 ELSE 200,
                      ![r].body = frames[Frame(r)].retText,
                      ![r].pc = "done"]
    /\ UNCHANGED <<frames, apart>>

NextConcurrent ==
    \/ \E r \in Requests : amWebHookOf(r)
    \/ \E r \in Requests : handleEventOf(r)
    \/ \E r \in Requests : parseHandlerOf(r)
    \/ \E r \in Requests : RespondOf(r)

SpecConcurrent == InitConcurrent /\ [][NextConcurrent]_vars

\* ---------------------------------------------------------------- claims

\* Whether the text holds the fragment.
Contains(text, fragment) == \E k \in 1..Len(text) : text[k] = fragment

\* Whether s starts with p.
IsPrefix(p, s) == Len(p) <= Len(s) /\ SubSeq(s, 1, Len(p)) = p

\* The request was parsed and handleEvent was called for it.
Parsed == i > 0

\* This step ends a parseHandler call with a return to handleEvent.
Returns == last' # last /\ last'.outcome \notin {"running", "panic"}

\* C1: once a parsed event is answered, the status is 400 exactly when the
\* error counter is nonzero and 200 exactly when it is zero, and the body is
\* the aggregated text in both cases.
C1_StatusFollowsErrorCount ==
    (pc = "done" /\ Parsed) =>
        /\ (errors > 0 <=> status = 400)
        /\ (errors = 0 <=> status = 200)
        /\ body = retText

C1_Witness ==
    pc = "done" /\ Parsed /\ errors > 0 /\ status = 400 /\ body = retText
    /\ body # <<>>

\* C2: a failure of one invocation never aborts the request: when the
\* request is over, every alert of the event has been processed and two
\* invocations have been attempted for each.
C2_FailureNeverAborts ==
    (pc \in {"done", "panic"} /\ Parsed) =>
        (i = nAlerts + 1 /\ last.n = 2 * nAlerts)

\* C3: for each alert exactly two invocations are attempted, the primary
\* handler and then "all": while the alert is being handled the calls made
\* are a prefix of these two, and once its handling is over they are both.
C3_PrimaryThenAll ==
    LET expected == <<handler, <<S_all>>>>
    IN alert.Timestamp # "" =>
          CASE pc = "invoke" -> calls = SubSeq(expected, 1, j - 1)
            [] pc = "select" -> calls = SubSeq(expected, 1, j)
            [] OTHER -> calls = expected

\* C4: a missing-handler result leaves the counter and the text alone exactly
\* when the handler name is "default" or "all"; for any other name it appends
\* its message and adds one to the counter.
C4_MissingHandlerSuppression ==
    [][(Returns /\ last'.err.code = "EMISSING") =>
          IF last'.h[1] = S_default \/ last'.h[1] = S_all
          THEN errors' = errors /\ retText' = retText
          ELSE /\ errors' = errors + 1
               /\ retText' = retText \o <<"Handler ">> \o last'.h[1]
                     \o <<" is not defined or missing from configration", "\n">>]_vars

C4_Witness ==
    /\ last.err.code = "EMISSING"
    /\ last.h = <<S_all>>
    /\ errors = 1
    /\ retText = <<"Handler ", "n",
                   " is not defined or missing from configration", "\n">>

\* C5: an event whose alerts carry no handler annotation, under a
\* configuration with neither "default" nor "all", is answered with 200, an
\* empty text and an error counter of zero.
C5_NoAnnotationNoMetaHandler ==
    (/\ pc = "done" /\ Parsed
     /\ ~hist.annotated
     /\ S_default \notin DOMAIN config
     /\ S_all \notin DOMAIN config) =>
        (errors = 0 /\ retText = <<>> /\ status = 200 /\ body = <<>>)

C5_Witness ==
    /\ pc = "done" /\ Parsed /\ nAlerts = MaxAlerts
    /\ ~hist.annotated
    /\ S_default \notin DOMAIN config
    /\ S_all \notin DOMAIN config
    /\ status = 200

\* C6: a template, tokenize or execution failure of an invocation adds one
\* to the error counter and appends its message to the text, whatever the
\* handler name, "default" and "all" included.
C6_FailuresAlwaysCounted ==
    [][(/\ Returns
        /\ \/ last'.stage = "format" /\ last'.err # Nil
           \/ last'.outcome = "startfail"
           \/ last'.outcome = "timeout"
           \/ last'.outcome = "exit" /\ last'.err # Nil) =>
          /\ errors' = errors + 1
          /\ last'.err.text # <<>>
          /\ IsPrefix(retText \o last'.err.text \o <<"\n">>, retText')]_vars

C6_Witness ==
    /\ last.h = <<S_all>>
    /\ last.stage = "format"
    /\ last.err.text = <<"Could not parse handler arguments: ",
                         "Missing closing quote">>
    /\ errors > 0
    /\ Contains(retText, "Missing closing quote")

\* C7: when "default" is configured, the default handler is invoked for an
\* alert without handler annotation and for an alert whose requested
\* handler is not in the configuration.
C7_DefaultWhenHandlerMissing ==
    (/\ S_default \in DOMAIN config
     /\ alert.Timestamp # ""
     /\ pc \in {"loop", "done"}
     /\ \/ "handler" \notin DOMAIN alert.Annotations
        \/ handler # <<>> /\ handler[1] \notin DOMAIN config) =>
        \E k \in 1..Len(calls) : calls[k] = <<S_default>>

\* C8: a handler found in the configuration is rendered exactly when its
\* status filter, the empty filter read as "firing", is "*" or the alert's
\* status; otherwise the call returns at once with no error, starts no
\* process and leaves the text and the counter alone.
C8_StatusFilter ==
    [][(last' # last /\ last'.key # <<>>) =>
          LET filter == config[last'.key].Status
              effective == IF filter = "" THEN "firing" ELSE filter
              pass == effective = "*" \/ effective = alert.Status
          IN /\ pass <=> last'.stage \in {"format", "script", "exec"}
             /\ ~pass => /\ last'.stage = "filter"
                         /\ last'.outcome = "return"
                         /\ last'.err = Nil
                         /\ errors' = errors
                         /\ retText' = retText
                         /\ proc' = "none"
                         /\ pc' # "select"]_vars

C8_Witness ==
    /\ last.stage = "filter"
    /\ config[last.key].Status = "resolved"
    /\ alert.Status = "firing"
    /\ proc = "none"
    /\ errors = 0

\* t is the first white-space delimited token of v.
IsFirstToken(v, t) ==
    /\ t # <<>>
    /\ \A k \in 1..Len(t) : ~IsSpace(t[k])
    /\ \E p \in 0..Len(v) :
          /\ \A k \in 1..p : IsSpace(v[k])
          /\ p + Len(t) <= Len(v)
          /\ SubSeq(v, p + 1, p + Len(t)) = t
          /\ (p + Len(t) = Len(v) \/ IsSpace(v[p + Len(t) + 1]))

\* C9: the primary invocation selects the configuration entry whose name
\* equals the first white-space delimited token of the handler annotation,
\* and selects none when no name equals it.
C9_ExactNameMatch ==
    (last.j = 1 /\ "handler" \in DOMAIN alert.Annotations) =>
        LET v == alert.Annotations["handler"]
        IN IF last.stage = "empty"
           THEN \A k \in 1..Len(v) : IsSpace(v[k])
           ELSE /\ IsFirstToken(v, last.h[1])
                /\ IF last.h[1] \in DOMAIN config
                   THEN last.key = last.h[1] /\ last.stage # "lookup"
                   ELSE last.key = <<>> /\ last.stage = "lookup"

C9_Witness ==
    /\ last.j = 1
    /\ alert.Annotations = HandlerAnnotation(<<"h", " ", "\t", "a">>)
    /\ last.key = N_h
    /\ last.Argv = <<<<"a">>>>
    /\ last.stage = "exec"

\* C10, as claimed: with debug off, an invocation whose child is still
\* running when the timer fires makes the response 400 with "timed out" in
\* its text.
C10_RunningWhenTimerFires ==
    (pc = "done" /\ Parsed /\ ~debug /\ hist.elapsed) =>
        (status = 400 /\ Contains(body, "timed out"))

\* C10, amended: with debug off, an invocation whose select takes the timer
\* case makes the response 400 with "timed out" in its text.
C10_TimedOutAnswers400 ==
    (pc = "done" /\ Parsed /\ ~debug /\ hist.timedOut) =>
        (status = 400 /\ Contains(body, "timed out"))

C10_Witness ==
    /\ pc = "done" /\ Parsed /\ ~debug
    /\ hist.timedOut /\ hist.elapsed
    /\ status = 400
    /\ Contains(body, "timed out")

\* ------------------------------------------------- claims about executeHandler

\* Whether text ends with tail.
IsSuffix(tail, text) ==
    /\ Len(tail) <= Len(text)
    /\ SubSeq(text, Len(text) - Len(tail) + 1, Len(text)) = tail

\* This step is the return of executeHandler from its select.
SelectReturns == pc = "select" /\ pc' # "select"

\* C11: when executeHandler returns the timeout error, the kill was issued
\* before the return and the returned buffer is nil: what the child wrote
\* before the timeout is neither returned nor added to the aggregated text,
\* which ends with the line of the error.
C11_TimeoutKillsAndDiscards ==
    last.outcome = "timeout" =>
        /\ last.kill
        /\ last.output.isNil
        /\ last.output.bytes = <<>>
        /\ Contains(last.err.text, "timed out")
        /\ IsSuffix(last.err.text \o <<"\n">>, retText)

\* A call has timed out after its child had written: nothing of it is in
\* what was returned or in the text.
C11_Witness ==
    /\ last.outcome = "timeout"
    /\ last.captured \in Outputs
    /\ last.kill
    /\ last.output = NilBuffer
    /\ \A k \in 1..Len(retText) : <<retText[k]>> \notin Outputs

\* The two outcomes of a call of executeHandler that started a child.
Completed(c) ==
    /\ ~c.output.isNil
    /\ c.output.bytes = c.captured
    /\ c.err \in {Nil, Errorf(<<"exit status 1">>)}
    /\ ~c.kill
TimedOut(c) ==
    /\ c.output.isNil
    /\ c.output.bytes = <<>>
    /\ Contains(c.err.text, "timed out")
    /\ c.kill

\* C12: a call of executeHandler that started a child returns either the
\* child's exit result with the captured output and no kill, or the
\* timeout error with a nil buffer after a kill, never a mix of the two,
\* whatever the order of the child's exit, the goroutine's send and the timer.
C12_OneOutcome ==
    last.outcome \in {"exit", "timeout"} =>
        /\ Completed(last) \/ TimedOut(last)
        /\ ~(Completed(last) /\ TimedOut(last))
        /\ last.outcome = "exit" <=> Completed(last)

\* The timer fired while the child was running, the child then exited, and
\* the call returned the exit result with the output and without a kill.
C12_Witness ==
    /\ last.n = 1
    /\ last.outcome = "exit"
    /\ hist.elapsed
    /\ Completed(last)
    /\ last.err # Nil
    /\ last.captured \in Outputs

\* C13, as claimed: if the child exits before the timer fires,
\* executeHandler returns the exit error with the captured output and never
\* the timeout error.
C13_ExitBeforeTimeout ==
    [][(SelectReturns /\ last.early) =>
           /\ last'.outcome = "exit"
           /\ last'.err = (IF exitCode = 0 THEN Nil
                           ELSE Errorf(<<"exit status 1">>))
           /\ last'.output = Buffer(out)]_vars

\* C13, amended: if the timer has not fired when the select of
\* executeHandler is evaluated, executeHandler returns only with the result
\* of cmd.Wait() for the exited child: the exit error (nil on status zero),
\* the captured output, no kill and never the timeout error.
C13_ExitBeforeTimerFires ==
    [][(SelectReturns /\ timer # "fired") =>
           /\ proc = "exited"
           /\ last'.outcome = "exit"
           /\ last'.err = (IF exitCode = 0 THEN Nil
                           ELSE Errorf(<<"exit status 1">>))
           /\ last'.output = Buffer(out)
           /\ ~last'.kill]_vars

\* A child that wrote and exited with status 1 before any timer fired: its
\* exit error and its output were returned.
C13_Witness ==
    /\ last.n = 1
    /\ last.outcome = "exit"
    /\ last.early
    /\ ~hist.elapsed
    /\ last.err = Errorf(<<"exit status 1">>)
    /\ last.output.bytes \in Outputs
    /\ errors = 1

\* C14: while debug is set no child is started, and every invocation that
\* resolves its handler, passes the status filter and renders and tokenizes
\* without an error returns no output and no error and leaves the counter
\* and the text as they were.
C14_DebugStartsNothing ==
    [][debug =>
          /\ proc' = "none"
          /\ (/\ last' # last
              /\ last'.stage \in {"format", "script", "exec"}
              /\ ~(last'.stage = "format" /\ last'.err # Nil)) =>
                 /\ last'.outcome = "debug"
                 /\ last'.err = Nil
                 /\ last'.output = NilBuffer
                 /\ errors' = errors
                 /\ retText' = retText]_vars

RECURSIVE Replay(_)
Replay(log) ==
    IF log = <<>> THEN NoFrame
    ELSE LET before == Replay(SubSeq(log, 1, Len(log) - 1))
             e == log[Len(log)]
         IN Account(e.h, e.output, e.err, before.errors, before.retText)

\* C16: concurrent requests do not interfere: in every interleaving the
\* counter and the text of a request are what its own invocations make
\* them, the invocations are those of its own alert, and its status and body
\* follow from its own counter and text.
C16_NoInterference ==
    \A r \in Requests :
        LET w == workers[r]
        IN w.pc # "recv" =>
              /\ frames[Frame(r)] = Replay(w.log)
              /\ \A k \in 1..Len(w.log) :
                     w.log[k].h = Invocation(PrimaryHandler(w.alert), k)
              /\ w.pc = "done" =>
                     /\ w.status = IF Replay(w.log).errors > 0 THEN 400 ELSE 200
                     /\ w.body = Replay(w.log).retText

\* Two requests have been answered, one with 200 and one with 400 and other
\* text, and each made an invocation between the two invocations of the
\* other.
C16_Witness ==
    /\ workers[1].pc = "done" /\ workers[2].pc = "done"
    /\ workers[1].mixed /\ workers[2].mixed
    /\ workers[1].status = 200 /\ workers[2].status = 400
    /\ workers[1].body # workers[2].body
    /\ workers[1].body # <<>>

\* ------------------------------------------------- claims about Tokenize

Quotes == {"'", "\""}
Plain(s) == \A k \in 1..Len(s) : s[k] \notin Quotes \cup {"\\"}

\* The loop of Tokenize has just read the rune input[pos].
ReadsRune == pos' = pos + 1

\* C17: for an input with no single quote, no double quote and no backslash
\* Tokenize returns no error and exactly the maximal runs of non-space
\* characters, in order, as strings.Fields does.
C17_PlainInputSplitsOnSpace ==
    (ret.returned /\ Plain(input)) =>
        (ret.err = Nil /\ ret.fields = Fields(input))

\* Tokenize has returned two fields for a plain input that holds both kinds
\* of white space.
C17_Witness ==
    /\ ret.returned
    /\ Plain(input)
    /\ input = <<"a", " ", "\n", "a">>
    /\ ret.fields = << <<"a">>, <<"a">> >>

\* C18: when the end of the input is reached in state 2 (a quote was opened
\* and not closed) Tokenize returns an error and no token at all, the tokens
\* completed before the quote included.
C18_UnterminatedQuote ==
    (ret.returned /\ scan.state = 2) =>
        (ret.err # Nil /\ ret.fields = <<>>)

\* Tokenize has returned in state 2 with a completed token in result.
C18_Witness ==
    /\ ret.returned
    /\ scan.state = 2
    /\ scan.result # <<>>
    /\ ret.err = Errorf(<<"Missing closing quote">>)

\* C19: a quote read in state 1 while no quote is active (the backslash was
\* read in state 0) opens no quoted region: it is appended to the current
\* token and the state is 0 again; white space read next closes that token.
C19_EscapedQuoteIsLiteral ==
    [][ReadsRune =>
           /\ (scan.state = 1 /\ scan.quote = "" /\ input[pos] \in Quotes) =>
                  scan' = [scan EXCEPT !.token = Append(@, input[pos]),
                                       !.state = 0]
           /\ (/\ pos > 1
               /\ prev.state = 1 /\ prev.quote = "" /\ input[pos - 1] \in Quotes
               /\ IsSpace(input[pos])) =>
                  /\ scan'.result = Append(scan.result, scan.token)
                  /\ scan.token[Len(scan.token)] = input[pos - 1]
                  /\ scan'.token = <<>>
                  /\ scan'.state = 0]_vars

\* Tokenize has returned for \" a: the quote is a token of its own.
C19_Witness ==
    /\ ret.returned
    /\ input = <<"\\", "\"", " ", "a">>
    /\ ret.err = Nil
    /\ ret.fields = << <<"\"">>, <<"a">> >>

\* C20: in state 1 white space and the two quotes are appended alone, and
\* split nothing; any other rune is appended after a backslash; the state is
\* then 2 if a quote is active and 0 if none is.
C20_EscapeState ==
    [][(ReadsRune /\ scan.state = 1) =>
           /\ scan'.token =
                  IF IsSpace(input[pos]) \/ input[pos] \in Quotes
                  THEN Append(scan.token, input[pos])
                  ELSE scan.token \o <<"\\", input[pos]>>
           /\ scan'.result = scan.result
           /\ scan'.quote = scan.quote
           /\ scan'.state = IF scan.quote # "" THEN 2 ELSE 0]_vars

\* Inside a quote, a backslash and a letter have been read: both are in the
\* token and the state is 2 again.
C20_Witness ==
    /\ pos > 2
    /\ prev.state = 1
    /\ prev.quote # ""
    /\ input[pos - 1] = "a"
    /\ scan.state = 2
    /\ scan.token = prev.token \o <<"\\", "a">>

\* C21: in state 2 only the rune equal to the opening quote closes the
\* region, the other quote and white space are appended to the token; the
\* closing quote ends the token at once, so that a rune which is no white
\* space and follows it starts a token of its own.
C21_QuotedRegion ==
    [][ReadsRune =>
           /\ (scan.state = 2 /\ input[pos] = scan.quote) =>
                  /\ scan'.result = IF scan.token = <<>> THEN scan.result
                                    ELSE Append(scan.result, scan.token)
                  /\ scan'.token = <<>>
                  /\ scan'.state = 0
                  /\ scan'.quote = ""
           /\ (scan.state = 2 /\ input[pos] \notin {scan.quote, "\\"}) =>
                  scan' = [scan EXCEPT !.token = Append(@, input[pos])]
           /\ (/\ pos > 1
               /\ prev.state = 2 /\ input[pos - 1] = prev.quote
               /\ input[pos] = "a") =>
                  /\ scan.token = <<>>
                  /\ scan'.token = <<"a">>
                  /\ scan'.result = scan.result]_vars

\* Tokenize has returned for '"'a: the other quote is the quoted token, the
\* letter after the closing quote a token of its own.
C21_Witness ==
    /\ ret.returned
    /\ input = <<"'", "\"", "'", "a">>
    /\ ret.err = Nil
    /\ ret.fields = << <<"\"">>, <<"a">> >>

\* C22: when the end of the input is reached in state 1, Tokenize appends a
\* backslash to the pending token and returns that token as the last one.
C22_TrailingBackslash ==
    (ret.returned /\ scan.state = 1) =>
        /\ ret.err = Nil
        /\ ret.fields = Append(scan.result, Append(scan.token, "\\"))

\* Tokenize has returned for a a\ : the last token ends with the backslash.
C22_Witness ==
    /\ ret.returned
    /\ scan.state = 1
    /\ input = <<"a", " ", "a", "\\">>
    /\ ret.fields = << <<"a">>, <<"a", "\\">> >>

\* C30: whenever Tokenize returns without an error no quote is active at the
\* end of the input.
C30_NoOpenQuoteOnSuccess ==
    (ret.returned /\ ret.err = Nil) => scan.quote = ""


\* ---- Claims about amWebHook ----

\* The request was turned away before its body was read, or its body was
\* read and is not the JSON of an event.
Rejected ==
    \/ hist.method \notin {"", "POST"}
    \/ hist.method = "POST" /\ ~hist.readErr /\ ~hist.parsed

\* C25: a request that is not a POST, or whose body does not parse as an
\* event, is answered 400 and handleEvent is never reached: no alert is
\* looked at, no handler is looked up, no child is started.
C25_RejectedNeverReachesHandleEvent ==
    Rejected => /\ pc = "done"
                /\ status = 400
                /\ ~Parsed
                /\ alert = NoAlert
                /\ last = NoCall
                /\ calls = <<>>
                /\ proc = "none"
                /\ ~hist.annotated

C25_Witness ==
    /\ hist.method = "POST"
    /\ ~hist.readErr
    /\ ~hist.parsed
    /\ hist.length = AlertBytes
    /\ status = 400
    /\ Contains(body, "Error parsing JSON: ")

\* C26 as stated: a body that reaches the size of the buffer is answered
\* 400 and no alert of it is processed.
C26_CeilingRejects ==
    (hist.method = "POST" /\ ~hist.readErr /\ hist.length >= JsonBody)
        => ~Parsed /\ ~hist.parsed /\ (pc = "done" => status = 400)

\* C26: the body is read in full whatever its length, one buffer at a time,
\* and a body that is the JSON of an event is processed alert by alert, at
\* or beyond the size of the buffer as below it.
C26_WholeBodyRead ==
    (hist.method = "POST" /\ ~hist.readErr)
        => /\ hist.got = hist.length
           /\ hist.parsed => /\ Parsed
                              /\ nAlerts * AlertBytes = hist.length
                              /\ (pc = "done" => /\ status \in {200, 400}
                                                  /\ i = nAlerts + 1
                                                  /\ calls = <<>> <=> nAlerts = 0)

C26_Witness ==
    /\ pc = "done"
    /\ hist.method = "POST"
    /\ hist.parsed
    /\ hist.length > JsonBody
    /\ hist.got = hist.length
    /\ status = 200
    /\ i = nAlerts + 1
    /\ Len(calls) = 2
    /\ last.n = 2 * nAlerts

\* ---- Claims about the alert the template sees ----

\* Stages of parseHandler at or after its call of formatHandler.
Formatted == {"format", "script", "exec"}

\* The arguments of the handler annotation of a: its fields after the first.
AnnotationArgs(a) ==
    IF "handler" \in DOMAIN a.Annotations /\ Fields(a.Annotations["handler"]) # <<>>
    THEN Tail(Fields(a.Annotations["handler"]))
    ELSE <<>>

\* C23: in every invocation that reaches the template, Argv is the
\* invocation's tokens after the handler name: the annotation's arguments for
\* the primary invocation, empty for default and all; the template's alert
\* differs from handleEvent's in Argv only, and handleEvent's alert keeps an
\* empty Argv, so nothing carries over to the all invocation.
C23_ArgvPerInvocation ==
    /\ alert.Argv = <<>>
    /\ last.stage \in Formatted =>
          /\ last.Argv = Tail(last.h)
          /\ last.j = 2 => last.Argv = <<>>
          /\ (last.j = 1 /\ last.h[1] = S_default /\ ~hist.annotated) => last.Argv = <<>>
    /\ pc = "invoke" =>
          LET r == parseHandler(config, Invocation(handler, j), alert)
          IN r.stage \in Formatted =>
                /\ r.alert = [alert EXCEPT !.Argv = r.Argv]
                /\ r.Argv = IF j = 1 THEN AnnotationArgs(alert) ELSE <<>>

C23_Witness ==
    /\ last.j = 2
    /\ last.stage = "format"
    /\ last.Argv = <<>>
    /\ Contains(ErrorText(last.err), "error calling index: index out of range: 0")
    /\ Len(calls) = 2
    /\ calls[1] = <<N_h, <<"a">> >>
    /\ alert.Argv = <<>>

\* C24: the Json of an alert is the snapshot taken right after Timestamp is
\* stamped: it holds the Timestamp and the alert's own fields, holds neither
\* Argv nor Json, stays as it is while the alert's invocations run, and the
\* primary and the all invocation both see it.
C24_JsonSnapshot ==
    alert # NoAlert =>
        /\ alert.Timestamp \in Timestamps
        /\ DOMAIN alert.Json = {"status", "annotations", "timestamp"}
        /\ alert.Json.timestamp = alert.Timestamp
        /\ alert.Json.status = alert.Status
        /\ alert.Json.annotations = alert.Annotations
        /\ pc = "invoke" =>
              parseHandler(config, Invocation(handler, j), alert).alert.Json
                  = alert.Json
        /\ (pc = "invoke" /\ j = 2) => last.j = 1 /\ last.n > 0

C24_Witness ==
    /\ pc = "invoke"
    /\ j = 2
    /\ last.j = 1
    /\ last.stage = "exec"
    /\ last.Argv = <<"a">>
    /\ alert.Json.timestamp = "T1"
    /\ parseHandler(config, Invocation(handler, 2), alert).stage = "format"

\* ---- Claims about the stages of parseHandler ----

\* The handler tokens h of the alert a pass lookup, status filter, render
\* and tokenize, in that order, and name an executable.
StagesPassed(h, a) ==
    /\ h # <<>>
    /\ h[1] \in DOMAIN config
    /\ LET command == config[h[1]]
           filter == IF command.Status = "" THEN "firing" ELSE command.Status
           rendered == templateExecute(command.Command, [a EXCEPT !.Argv = Tail(h)])
       IN /\ filter \in {"*", a.Status}
          /\ templateParse(command.Command) = Nil
          /\ rendered.err = Nil
          /\ Tokenize(rendered.buf).err = Nil
          /\ Tokenize(rendered.buf).fields # <<>>

\* The status filter of the handler named by h turns the alert a away.
FilteredOut(h, a) ==
    /\ h # <<>>
    /\ h[1] \in DOMAIN config
    /\ LET command == config[h[1]]
       IN IF command.Status = "" THEN a.Status # "firing"
          ELSE command.Status \notin {"*", a.Status}

\* The step is handleEvent's call of parseHandler.
CallMade == pc = "invoke" /\ last'.n = last.n + 1

\* C27: a child is started, or its start attempted, only in the call of an
\* invocation whose handler was found, whose status filter matched and whose
\* command rendered and tokenized without error; an invocation the status
\* filter turns away returns no error and no output, whatever its template,
\* and leaves the error count and the text alone; render and tokenize errors
\* come only from invocations that passed lookup and filter.
C27_StagesInOrder ==
    [][/\ CallMade =>
             LET h == Invocation(handler, j)
             IN /\ last'.h = h
                /\ (proc' # "none" \/ last'.outcome = "startfail") =>
                      /\ last'.stage = "exec"
                      /\ last'.key = h[1]
                      /\ StagesPassed(h, alert)
                /\ proc' # "none" => pc' = "select" /\ cmd'.exe # <<>>
                /\ last'.stage = "exec" => StagesPassed(h, alert)
                /\ FilteredOut(h, alert) =>
                      /\ last'.stage = "filter"
                      /\ last'.outcome = "return"
                      /\ last'.err = Nil
                      /\ last'.output = NilBuffer
                      /\ proc' = "none"
                      /\ errors' = errors
                      /\ retText' = retText
                /\ (last'.stage = "format" /\ last'.outcome = "return") =>
                      /\ ~FilteredOut(h, alert)
                      /\ h[1] \in DOMAIN config
                      /\ IsPrefix(<<"Could not parse handler arguments: ">>,
                                  ErrorText(last'.err))
                /\ last'.stage = "lookup" => h[1] \notin DOMAIN config
       /\ (~CallMade /\ proc = "none") => proc' = "none"]_vars

C27_Witness ==
    /\ pc = "select"
    /\ proc = "running"
    /\ last.j = 2
    /\ last.stage = "exec"
    /\ Len(calls) = 2
    /\ calls[1] = <<N_h>>
    /\ FilteredOut(calls[1], alert)
    /\ Tokenize(config[N_h].Command).err # Nil
    /\ errors = 0
    /\ i = 1

\* ---- Claims about the aggregated text ----

\* The step is the return of a parseHandler call to handleEvent's inner loop.
CallReturns ==
    /\ pc \in {"invoke", "select"}
    /\ pc' \in {"invoke", "loop"}
    /\ <<i, j>>' # <<i, j>>

\* What the returned call c adds to the aggregated text: its error line
\* unless the error is a missing default or all handler, then what its child
\* wrote if the child's exit was received.
Contribution(c) ==
    LET missing == c.err # Nil /\ c.err.code = "EMISSING"
        special == c.h # <<>> /\ (c.h[1] = S_default \/ c.h[1] = S_all)
        line == IF c.err # Nil /\ ~(missing /\ special)
                THEN ErrorText(c.err) \o <<"\n">> ELSE <<>>
        written == IF c.outcome = "exit" THEN c.captured ELSE <<>>
    IN line \o written

\* C28: the aggregated text grows only when an invocation returns, by that
\* invocation's contribution appended at its end, the invocations returning
\* alert by alert, primary before all; the output of a child is appended as
\* it was written; the response carries the text as aggregated.
C28_AggregatedText ==
    [][/\ CallReturns =>
             /\ retText' = retText \o Contribution(last')
             /\ last'.j = j
             /\ last'.h = Invocation(handler, j)
             /\ IF j = 1 THEN j' = 2 /\ i' = i ELSE i' = i + 1
       /\ ~CallReturns => retText' = retText
       /\ (pc = "loop" /\ pc' = "invoke") => j' = 1 /\ i' = i /\ i <= nAlerts
       /\ (pc = "loop" /\ pc' = "done") => body' = retText /\ i = nAlerts + 1]_vars

C28_Witness ==
    /\ pc = "done"
    /\ nAlerts = 2
    /\ status = 400
    /\ body = <<"exit status 1", "\n", "o", "o">>
                \o ErrorText(EventError("EMISSING", <<"n">>)) \o <<"\n", "o">>

\* ---- Claims about termination ----

\* Every call of executeHandler that started a child returns.
ExecuteHandlerReturns == (pc = "select") ~> (pc # "select")

\* The request ends: with a response, or in the panic of formatHandler.
RequestEnds == <>(pc \in {"done", "panic"})

\* C29 as stated: every call of executeHandler returns, and the request
\* gets its response.
C29_EveryRequestResponds ==
    /\ ExecuteHandlerReturns
    /\ <>(pc = "done" /\ status \in {200, 400, 500})

\* ---- Claims about empty tokens ----

\* Every rune of s is white space.
Blank(s) == \A k \in 1..Len(s) : IsSpace(s[k])

\* C32: no token Tokenize collects is empty, so none of a successful result
\* is; a closing quote right after its opening quote, with no token begun,
\* adds no token; an empty or blank input yields no token and no error.
C32_NoEmptyToken ==
    /\ \A k \in 1..Len(scan.result) : scan.result[k] # <<>>
    /\ (pos > 1 /\ prev.state = 2 /\ input[pos - 1] = prev.quote
           /\ prev.token = <<>>) =>
          scan.result = prev.result /\ scan.token = <<>> /\ scan.state = 0
    /\ (ret.returned /\ ret.err = Nil) =>
          \A k \in 1..Len(ret.fields) : ret.fields[k] # <<>>
    /\ (ret.returned /\ Blank(input)) => ret.err = Nil /\ ret.fields = <<>>
    /\ (ret.returned /\ input \in {<<"'", "'">>, <<"\"", "\"">>}) =>
          ret.err = Nil /\ ret.fields = <<>>

C32_Witness ==
    /\ ret.returned
    /\ input = <<"\"", "\"", " ", "a">>
    /\ ret.err = Nil
    /\ ret.fields = << <<"a">> >>

\* ---- Claims about a command without a token ----

\* The handler tokens h of the alert a pass lookup and status filter, and
\* the command renders, without error, to a text Tokenize finds no token in.
RendersNoToken(h, a) ==
    /\ h # <<>>
    /\ h[1] \in DOMAIN config
    /\ LET command == config[h[1]]
           filter == IF command.Status = "" THEN "firing" ELSE command.Status
           rendered == templateExecute(command.Command, [a EXCEPT !.Argv = Tail(h)])
       IN /\ filter \in {"*", a.Status}
          /\ templateParse(command.Command) = Nil
          /\ rendered.err = Nil
          /\ Tokenize(rendered.buf).err = Nil
          /\ Tokenize(rendered.buf).fields = <<>>

\* C31 as stated: the call of an invocation whose command renders to no
\* token returns the error "Script is empty, not running.", which is
\* written to the text and counted once; no child is started and the loop
\* goes on to the next invocation or alert.
C31_EmptyCommandIsOrdinaryFailure ==
    [][(CallMade /\ RendersNoToken(Invocation(handler, j), alert)) =>
          /\ last'.stage = "script"
          /\ last'.outcome = "return"
          /\ ErrorText(last'.err) = <<"Script is empty, not running.">>
          /\ errors' = errors + 1
          /\ retText' = retText \o <<"Script is empty, not running.", "\n">>
          /\ proc' = "none"
          /\ pc' \in {"invoke", "loop"}
          /\ IF j = 1 THEN j' = 2 /\ i' = i ELSE i' = i + 1]_vars
====
